---- MODULE Spec2Model ----
(***************************************************************************)
(* Model of the document Q&A / summarization backend:                      *)
(*   - the text extractor   (backend/pdf_processor.py, app.py)             *)
(*   - the prompt builder   (backend/prompt_templates.py)                  *)
(*   - the request pipeline (backend/main.py, backend/gemini_client.py)    *)
(*                                                                         *)
(* Strings are sequences of one-character strings, so that len(), strip(), *)
(* join() and formatting are computed and not assumed.  The PDF library    *)
(* and the remote model are external: their results are inputs drawn from  *)
(* bounded sets.                                                           *)
(***************************************************************************)
EXTENDS Integers, Sequences, FiniteSets, TLC

VARIABLES
    pdf_library,    \* PDF_LIBRARY: the parsing backend found at import, or Null
    doc,            \* the uploaded document, as the PDF library sees it
    validation,     \* outcome of the last validate_pdf(doc)
    extraction,     \* outcome of the last backend extract_text_from_bytes(doc)
    standalone,     \* outcome of the last app.py extract_text_from_bytes(doc)
    templates,      \* the module globals of prompt_templates.py
    renderLog,      \* render calls made so far (any MaxCalls of them, in order)
    request,        \* the request being served by the backend
    response,       \* the response the backend gave to `request`
    generation,     \* outcome of the generate_text call made for `request`
    gateway,        \* the generate_content calls made for `request`, in order
    debug,          \* settings.debug, read from the environment at startup
    inflight        \* the requests the server holds at once, each with its stage

vars == <<pdf_library, doc, validation, extraction, standalone, templates, renderLog,
          request, response, generation, gateway, debug, inflight>>

extractorVars == <<pdf_library, doc, validation, extraction, standalone>>

renderVars == <<templates, renderLog>>

pipelineVars == <<request, response, generation, gateway, debug, inflight>>

-----------------------------------------------------------------------------
(* Bounds *)

MaxPages == 2       \* pages of a document
MaxTextLen == 2     \* characters of a page text / request text / completion
MaxCalls == 2       \* render calls kept in renderLog
MaxUploadPages == 1     \* pages of a document uploaded to the backend
MaxUploadTextLen == 1   \* characters of a page text of an uploaded document
MaxPromptTextLen == 1   \* characters of a text / question / context given to render

-----------------------------------------------------------------------------
(* Strings *)

TextChars == {"a", " "}

Whitespace == {" ", "\n", "\t"}

Texts(n) == UNION {[1..k -> TextChars] : k \in 0..n}

NoValue == [kind |-> "none"]

\* str.strip(): leading characters removed while they are whitespace
RECURSIVE LStrip(_)
LStrip(s) ==
    IF s = <<>> THEN <<>>
    ELSE IF Head(s) \in Whitespace THEN LStrip(Tail(s))
    ELSE s

\* str.strip(): trailing characters removed while they are whitespace
RECURSIVE RStrip(_)
RStrip(s) ==
    IF s = <<>> THEN <<>>
    ELSE IF s[Len(s)] \in Whitespace THEN RStrip(SubSeq(s, 1, Len(s) - 1))
    ELSE s

Strip(s) == RStrip(LStrip(s))

DigitChars == <<"0", "1", "2", "3", "4", "5", "6", "7", "8", "9">>

\* str(n) for a natural number n, as f"{n}" and Jinja's {{ n }} print it
RECURSIVE NatToStr(_)
NatToStr(n) ==
    IF n < 10 THEN <<DigitChars[n + 1]>>
    ELSE NatToStr(n \div 10) \o <<DigitChars[(n % 10) + 1]>>

\* str(n) for an integer n
IntToStr(n) == IF n < 0 THEN <<"-">> \o NatToStr(0 - n) ELSE NatToStr(n)

\* sep.join(parts)
RECURSIVE Join(_, _)
Join(sep, parts) ==
    IF parts = <<>> THEN <<>>
    ELSE IF Len(parts) = 1 THEN parts[1]
    ELSE parts[1] \o sep \o Join(sep, Tail(parts))

\* s occurs in t as a contiguous run
Contains(t, s) ==
    \E i \in 0..(Len(t) - Len(s)) : SubSeq(t, i + 1, i + Len(s)) = s

-----------------------------------------------------------------------------
(* Outcomes of a call: a returned value or a raised exception *)

Return(v) == [kind |-> "return", value |-> v]

Raise(e, m) == [kind |-> "raise", exc |-> e, msg |-> m]

Returned(o) == o.kind = "return"

Raised(o) == o.kind = "raise"

Null == "null"

-----------------------------------------------------------------------------
(* The uploaded document as the PDF library presents it.                   *)
(*   opens : PdfReader(BytesIO(bytes)) returns (FALSE: it raises)          *)
(*   count : len(reader.pages) returns (FALSE: it raises)                  *)
(*   pages : per page, extract_text() returns `text` (ok) or raises        *)
(*   meta  : reader.metadata raises, is empty, or is an info dictionary    *)

PageRaises == [ok |-> FALSE, text |-> <<>>]

PageOutcomes(maxLen) == {PageRaises} \cup {[ok |-> TRUE, text |-> t] : t \in Texts(maxLen)}

PageSeqs(maxPages, maxLen) == UNION {[1..n -> PageOutcomes(maxLen)] : n \in 0..maxPages}

MetaOutcomes == {"raise", "empty", "info"}

DocumentsOf(maxPages, maxLen) ==
    {[opens |-> FALSE, count |-> FALSE, pages |-> <<>>, meta |-> "empty"]}
    \cup {[opens |-> TRUE, count |-> FALSE, pages |-> <<>>, meta |-> m] : m \in MetaOutcomes}
    \cup {[opens |-> TRUE, count |-> TRUE, pages |-> ps, meta |-> m] :
            ps \in PageSeqs(maxPages, maxLen), m \in MetaOutcomes}

Documents == DocumentsOf(MaxPages, MaxTextLen)

-----------------------------------------------------------------------------
(* backend/pdf_processor.py *)

EmptyMetadata ==
    [title |-> Null, author |-> Null, subject |-> Null, creator |-> Null,
     producer |-> Null, creation_date |-> Null, modification_date |-> Null]

\* the info dictionary of a document that has one: /Title only
InfoMetadata ==
    [title |-> "Test Document", author |-> Null, subject |-> Null, creator |-> Null,
     producer |-> Null, creation_date |-> "", modification_date |-> ""]

extract_metadata_propagating(d) ==
    IF d.meta = "raise" THEN Raise("Exception", "metadata")
    ELSE IF d.meta = "info" THEN Return(InfoMetadata)
    ELSE Return(EmptyMetadata)

\* PDFProcessor._extract_metadata: the read is inside try/except Exception
extract_metadata(d) ==
    IF d.meta = "raise" THEN Return(EmptyMetadata)
    ELSE IF d.meta = "info" THEN Return(InfoMetadata)
    ELSE Return(EmptyMetadata)

KeepPageUntrimmed(text) == text # <<>>

\* `if text.strip():`
KeepPage(text) == Strip(text) # <<>>

PageMarker(n) ==
    <<"-", "-", "-", " ", "P", "a", "g", "e", " ">> \o IntToStr(n) \o <<" ", "-", "-", "-">>

PageBlockZeroBased(page_num, text) ==
    PageMarker(page_num) \o <<"\n">> \o Strip(text)

\* f"--- Page {page_num + 1} ---\n{text.strip()}"
PageBlock(page_num, text) ==
    PageMarker(page_num + 1) \o <<"\n">> \o Strip(text)

PageStepPropagating(p, page_num) ==
    IF ~p.ok THEN [kind |-> "raise"]
    ELSE IF KeepPage(p.text) THEN [kind |-> "block", block |-> PageBlock(page_num, p.text)]
    ELSE [kind |-> "skip"]

\* one iteration of the page loop: try / extract_text / append / except: continue
PageStep(p, page_num) ==
    IF ~p.ok THEN [kind |-> "skip"]
    ELSE IF KeepPage(p.text) THEN [kind |-> "block", block |-> PageBlock(page_num, p.text)]
    ELSE [kind |-> "skip"]

\* for page_num in range(num_pages): ...   (text_content is the accumulator)
RECURSIVE PageLoop(_, _, _)
PageLoop(pages, page_num, text_content) ==
    IF page_num >= Len(pages) THEN Return(text_content)
    ELSE LET r == PageStep(pages[page_num + 1], page_num) IN
         IF r.kind = "raise" THEN Raise("Exception", "page")
         ELSE IF r.kind = "block"
              THEN PageLoop(pages, page_num + 1, Append(text_content, r.block))
              ELSE PageLoop(pages, page_num + 1, text_content)

BlockSeparator == <<"\n", "\n">>

\* "\n\n".join(text_content)
JoinBlocks(text_content) == Join(BlockSeparator, text_content)

\* metadata["pages_processed"] = len(text_content)
PagesProcessed(text_content, num_pages) == Len(text_content)

ExtractFailedUnwrapped == Raise("Exception", "Failed")

\* except Exception as e: raise PDFProcessingError(f"Failed to extract ...")
ExtractFailed == Raise("PDFProcessingError", "Failed")

ExtractNoText == Raise("PDFProcessingError", "NoText")

NoTextCheckMissing(text_content) == FALSE

\* `if not text_content:`
NoTextCheck(text_content) == text_content = <<>>

TextLengthWithoutMarker(full_text) == Len(full_text) - Len(PageMarker(1))

\* metadata["text_length"] = len(full_text)
TextLength(full_text) == Len(full_text)

\* PDFProcessor.extract_text_from_bytes
extract_text_from_bytes(d) ==
    IF ~d.opens THEN ExtractFailed
    ELSE LET m == extract_metadata(d) IN
    IF Raised(m) THEN ExtractFailed
    ELSE IF ~d.count THEN ExtractFailed
    ELSE LET num_pages == Len(d.pages)
             loop == PageLoop(d.pages, 0, <<>>) IN
    IF Raised(loop) THEN ExtractFailed
    ELSE IF NoTextCheck(loop.value) THEN ExtractNoText
    ELSE LET full_text == JoinBlocks(loop.value) IN
         Return([text |-> full_text,
                 metadata |-> m.value @@
                     [pages_processed |-> PagesProcessed(loop.value, num_pages),
                      total_pages |-> num_pages,
                      text_length |-> TextLength(full_text)]])

validate_pdf_body(d) ==
    IF ~d.opens THEN Raise("Exception", "open")
    ELSE IF ~d.count THEN Raise("Exception", "pages")
    ELSE Return(TRUE)

validate_pdf_uncaught(d) == validate_pdf_body(d)

\* PDFProcessor.validate_pdf: the body inside try/except Exception
validate_pdf(d) ==
    IF Raised(validate_pdf_body(d)) THEN Return(FALSE) ELSE validate_pdf_body(d)

-----------------------------------------------------------------------------
(* app.py: the standalone extractor *)

AppEmptyMetadata(n) ==
    [total_pages |-> n, title |-> Null, author |-> Null, creation_date |-> Null,
     pages_processed |-> 0]

\* app.py PDFProcessor._extract_metadata: the page count is read outside the try
app_extract_metadata(d) ==
    IF ~d.count THEN Raise("Exception", "pages")
    ELSE IF d.meta = "info"
         THEN Return([AppEmptyMetadata(Len(d.pages)) EXCEPT
                        !.title = "Test Document", !.creation_date = ""])
         ELSE Return(AppEmptyMetadata(Len(d.pages)))

AppFailedUnwrapped == Raise("Exception", "Failed")

\* except Exception as e: raise PDFProcessingError(f"Failed to process PDF: ...")
AppFailed == Raise("PDFProcessingError", "Failed")

\* app.py PDFProcessor.extract_text_from_bytes: every exception, the
\* no-text PDFProcessingError included, is wrapped by `except Exception`
app_extract_text_from_bytes(d) ==
    IF ~d.opens THEN AppFailed
    ELSE LET m == app_extract_metadata(d) IN
    IF Raised(m) THEN AppFailed
    ELSE LET loop == PageLoop(d.pages, 0, <<>>) IN
    IF Raised(loop) THEN AppFailed
    ELSE IF NoTextCheck(loop.value) THEN AppFailed
    ELSE Return([text |-> JoinBlocks(loop.value),
                 metadata |-> [m.value EXCEPT !.pages_processed = Len(loop.value)]])

-----------------------------------------------------------------------------
(* backend/prompt_templates.py                                             *)
(*                                                                         *)
(* A prompt is a sequence of tokens: every line of literal template text   *)
(* is one token, a line break is the token "\n", and substituted content   *)
(* (the text, the question, the context, the printed max_length) is        *)
(* inserted character by character.                                        *)
(* A summarization template is                                             *)
(*   head {% if max_length %} \n lengthPrefix {{ max_length }} lengthSuffix *)
(*   \n {% endif %} \n \n "Text to summarize:" \n {{ text }} closing       *)

ConciseTemplate ==
    [head |-> <<"\n",
        "You are an expert text summarizer. Your task is to create a concise, accurate summary of the provided text.", "\n",
        "\n",
        "Instructions:", "\n",
        "- Focus on the main ideas and key points", "\n",
        "- Maintain the original meaning and context", "\n",
        "- Use clear, professional language", "\n",
        "- Avoid unnecessary details or repetition", "\n">>,
     lengthPrefix |-> "- Keep the summary to approximately ",
     lengthSuffix |-> " words or less",
     closing |-> <<"\n", "\n", "Summary:">>]

DetailedTemplate ==
    [head |-> <<"\n",
        "You are an expert text summarizer. Your task is to create a comprehensive, detailed summary of the provided text.", "\n",
        "\n",
        "Instructions:", "\n",
        "- Include all major points and important details", "\n",
        "- Organize information logically", "\n",
        "- Maintain the structure and flow of the original text", "\n",
        "- Use clear, professional language", "\n",
        "- Include relevant examples or data points mentioned", "\n">>,
     lengthPrefix |-> "- Keep the summary to approximately ",
     lengthSuffix |-> " words or less",
     closing |-> <<"\n", "\n", "Detailed Summary:">>]

BulletPointsTemplate ==
    [head |-> <<"\n",
        "You are an expert text summarizer. Your task is to create a bullet-point summary of the provided text.", "\n",
        "\n",
        "Instructions:", "\n",
        "- Extract key points and present them as bullet points", "\n",
        "- Use clear, concise language for each point", "\n",
        "- Organize points logically (chronologically or by importance)", "\n",
        "- Each bullet point should be self-contained and meaningful", "\n">>,
     lengthPrefix |-> "- Limit to approximately ",
     lengthSuffix |-> " words total across all bullet points",
     closing |-> <<"\n", "\n", "Bullet Point Summary:", "\n", "<bullet>">>]

SUMMARIZATION_TEMPLATES ==
    [style \in {"concise", "detailed", "bullet_points"} |->
        CASE style = "concise" -> ConciseTemplate
          [] style = "detailed" -> DetailedTemplate
          [] style = "bullet_points" -> BulletPointsTemplate]

\* RAG_TEMPLATE: head {% if include_sources %} sourcesLine {% endif %}
\*   Context: {{ context }} Question: {{ question }}
\*   {% if include_sources %} closingWithSources {% else %} closingPlain {% endif %}
RAG_TEMPLATE ==
    [head |-> <<"\n",
        "You are an AI assistant specialized in answering questions based on provided context. Your task is to analyze the given context and provide accurate, helpful answers to user questions.", "\n",
        "\n",
        "Instructions:", "\n",
        "- Base your answer strictly on the information provided in the context", "\n",
        "- If the context doesn't contain enough information to answer the question, clearly state this", "\n",
        "- Be precise and factual in your responses", "\n",
        "- Use direct quotes from the context when appropriate", "\n",
        "- If asked about something not covered in the context, explain that the information is not available", "\n">>,
     sourcesLine |-> <<"\n",
        "- Include references to specific parts of the context that support your answer", "\n">>,
     contextLabel |-> <<"\n", "\n", "Context:", "\n">>,
     questionLabel |-> <<"\n", "\n", "Question: ">>,
     closingWithSources |-> <<"\n", "\n", "\n",
        "Please provide your answer and include source references where applicable.", "\n",
        "\n",
        "Answer:", "\n">>,
     closingPlain |-> <<"\n", "\n", "\n", "Answer:", "\n">>]

\* the module-level names of prompt_templates.py, as loaded
ModuleGlobals ==
    [SUMMARIZATION_TEMPLATES |-> SUMMARIZATION_TEMPLATES, RAG_TEMPLATE |-> RAG_TEMPLATE]

\* Optional[int]: None is <<>>, an integer n is <<n>>
None == <<>>

Some(n) == <<n>>

\* {% if max_length %}: Python truth of the value (None and 0 are false)
JinjaTruthy(max_length) == max_length # None /\ max_length[1] # 0

LengthLine(tpl, n) == <<tpl.lengthPrefix>> \o IntToStr(n) \o <<tpl.lengthSuffix>>

JinjaPrintAutoescaped(value) ==
    LET escaped[i \in 0..Len(value)] ==
            IF i = 0 THEN <<>>
            ELSE escaped[i - 1] \o (IF value[i] = "<" THEN <<"&", "l", "t", ";">>
                                    ELSE <<value[i]>>)
    IN escaped[Len(value)]

\* {{ value }} in a Template built with the defaults (autoescape off): the
\* string is written out as it is
JinjaPrint(value) == value

\* Template(source).render(text=text, max_length=max_length)
RenderSummarizationTemplate(tpl, text, max_length) ==
    tpl.head
    \o (IF JinjaTruthy(max_length)
        THEN <<"\n">> \o LengthLine(tpl, max_length[1]) \o <<"\n">>
        ELSE <<>>)
    \o <<"\n", "\n", "Text to summarize:", "\n">>
    \o JinjaPrint(text)
    \o tpl.closing

ResolveStyleDetailed(globals, style) ==
    IF style \notin DOMAIN globals.SUMMARIZATION_TEMPLATES THEN "detailed" ELSE style

\* `if style not in SUMMARIZATION_TEMPLATES: style = "concise"`
ResolveStyle(globals, style) ==
    IF style \notin DOMAIN globals.SUMMARIZATION_TEMPLATES THEN "concise" ELSE style

\* get_summarization_prompt(text, max_length, style); the dictionary lookup
\* raises KeyError on a missing key
get_summarization_prompt(globals, text, max_length, style) ==
    LET resolved == ResolveStyle(globals, style) IN
    IF resolved \notin DOMAIN globals.SUMMARIZATION_TEMPLATES
    THEN Raise("KeyError", resolved)
    ELSE Return(RenderSummarizationTemplate(
                    globals.SUMMARIZATION_TEMPLATES[resolved], text, max_length))

\* get_rag_prompt(question, context, include_sources)
get_rag_prompt(globals, question, context, include_sources) ==
    LET tpl == globals.RAG_TEMPLATE IN
    Return(tpl.head
           \o (IF include_sources THEN tpl.sourcesLine ELSE <<>>)
           \o tpl.contextLabel \o JinjaPrint(context)
           \o tpl.questionLabel \o JinjaPrint(question)
           \o (IF include_sources THEN tpl.closingWithSources ELSE tpl.closingPlain))

GlobalsAfterRenderRemembersStyle(globals, style) ==
    IF style \in DOMAIN globals.SUMMARIZATION_TEMPLATES
    THEN [globals EXCEPT !.SUMMARIZATION_TEMPLATES["concise"] =
                            globals.SUMMARIZATION_TEMPLATES[style]]
    ELSE globals

\* the module globals after get_summarization_prompt(.., style): the function
\* rebinds only its local `style` and builds a fresh Template
GlobalsAfterRender(globals, style) == globals

-----------------------------------------------------------------------------
(* backend/gemini_client.py *)

\* what model.generate_content(prompt) and response.text give: a raised
\* exception (ok = FALSE) with its reason, or the completion text
RemoteRaises == {[ok |-> FALSE, text |-> <<>>, reason |-> r] :
                    r \in {"quota exceeded", "deadline exceeded"}}

\* response.text of a completion: empty, blank, plain, padded with blanks
Completions == {<<>>, <<" ">>, <<"a">>, <<"a", "a">>, <<" ", "a", " ">>}

RemoteOutcomes ==
    RemoteRaises \cup {[ok |-> TRUE, text |-> t, reason |-> Null] : t \in Completions}

GenerationFailed(reason) == Raise("Exception", <<"Failed to generate text", reason>>)

generate_text_unchecked(prompt, remote) ==
    IF ~remote.ok THEN GenerationFailed(remote.reason) ELSE Return(Strip(remote.text))

\* GeminiClient.generate_text: one generate_content call; an empty completion
\* raises; every exception is re-raised as Exception("Failed to generate text")
generate_text(prompt, remote) ==
    IF ~remote.ok THEN GenerationFailed(remote.reason)
    ELSE IF remote.text = <<>> THEN GenerationFailed("Empty response from Gemini API")
    ELSE Return(Strip(remote.text))

RemoteCallsWithRetry(prompt, remote) ==
    IF remote.ok THEN <<[prompt |-> prompt, outcome |-> remote]>>
    ELSE <<[prompt |-> prompt, outcome |-> remote], [prompt |-> prompt, outcome |-> remote]>>

\* the generate_content calls one generate_text call makes: the single call
\* of the try block, which no loop surrounds
RemoteCalls(prompt, remote) == <<[prompt |-> prompt, outcome |-> remote]>>

\* what a client method leaves behind once generate_text has been awaited
Generated(input, prompt, generated, calls) ==
    [out |-> generated, renderLog |-> <<[input |-> input, out |-> prompt]>>,
     generation |-> generated, gateway |-> calls]

\* summarize_text and answer_question of the client: the prompt is built, then
\* generate_text is awaited; [out, renderLog, generation, gateway] is the
\* outcome with the render call, the generate_text outcome and the remote calls
PromptThenGenerate(input, prompt, remote) ==
    IF Raised(prompt)
    THEN [out |-> prompt, renderLog |-> <<[input |-> input, out |-> prompt]>>,
          generation |-> NoValue, gateway |-> <<>>]
    ELSE Generated(input, prompt, generate_text(prompt.value, remote),
                   RemoteCalls(prompt.value, remote))

\* GeminiClient.summarize_text
gemini_summarize_text(globals, text, max_length, style, remote) ==
    PromptThenGenerate([op |-> "summarize", text |-> text, max_length |-> max_length,
                        style |-> style],
                       get_summarization_prompt(globals, text, max_length, style),
                       remote)

\* GeminiClient.answer_question
gemini_answer_question(globals, question, context, include_sources, remote) ==
    PromptThenGenerate([op |-> "answer", question |-> question, context |-> context,
                        include_sources |-> include_sources],
                       get_rag_prompt(globals, question, context, include_sources),
                       remote)

-----------------------------------------------------------------------------
(* backend/models.py *)

MinTextChars == 1

MaxTextChars == 50000

MinSummaryWords == 10

MaxSummaryWords == 1000

\* SummarizeRequest: text min_length=1 max_length=50000; max_length ge=10 le=1000
SummarizeRequestValid(body) ==
    /\ Len(body.text) >= MinTextChars
    /\ Len(body.text) <= MaxTextChars
    /\ body.max_length # None =>
          /\ body.max_length[1] >= MinSummaryWords
          /\ body.max_length[1] <= MaxSummaryWords

MaxQuestionChars == 1000

QueryRequestValidQuestionUnbounded(body) ==
    /\ Len(body.question) >= MinTextChars
    /\ Len(body.context) >= MinTextChars
    /\ Len(body.context) <= MaxTextChars

\* QueryRequest: question min_length=1 max_length=1000; context min_length=1
\* max_length=50000
QueryRequestValid(body) ==
    /\ Len(body.question) >= MinTextChars
    /\ Len(body.question) <= MaxQuestionChars
    /\ Len(body.context) >= MinTextChars
    /\ Len(body.context) <= MaxTextChars

-----------------------------------------------------------------------------
(* backend/main.py *)

RECURSIVE GCD(_, _)
GCD(a, b) == IF b = 0 THEN a ELSE GCD(b, a % b)

\* the rational a / b (b > 0) in lowest terms, as <<numerator, denominator>>
Fraction(a, b) == <<a \div GCD(a, b), b \div GCD(a, b)>>

CompressionRatioFloorDivision(summary_length, original_length) ==
    IF original_length > 0 THEN <<summary_length \div original_length, 1>> ELSE <<0, 1>>

\* summary_length / original_length if original_length > 0 else 0
CompressionRatio(summary_length, original_length) ==
    IF original_length > 0 THEN Fraction(summary_length, original_length) ELSE <<0, 1>>

\* `style or "concise"`
StyleOrConcise(style) == IF style \in {Null, ""} THEN "concise" ELSE style

\* raise HTTPException(status_code=code, detail=message), as FastAPI answers it
HttpError(code, message) == [status |-> code, body |-> [detail |-> [message |-> message]]]

\* raise HTTPException(status_code=code, detail=f"{prefix}: {str(e)}"): the
\* detail holds the prefix and, as its cause, the message of the exception e
HttpFailure(code, prefix, e) ==
    [status |-> code, body |-> [detail |-> [message |-> prefix, cause |-> e.msg]]]

\* the handler registered for Exception: what the application answers when
\* an exception other than HTTPException leaves a route handler
global_exception_handler(e, debugging) ==
    [status |-> 500,
     body |-> [error |-> "Internal server error",
               detail |-> IF debugging THEN e.msg ELSE "An unexpected error occurred",
               error_code |-> Null]]

SummarizeOkAlwaysText(summary, text_content, source_type, pdf_metadata) ==
    [status |-> 200,
     body |-> [summary |-> summary,
               original_length |-> Len(text_content),
               summary_length |-> Len(summary),
               compression_ratio |-> CompressionRatio(Len(summary), Len(text_content)),
               source_type |-> "text",
               pdf_metadata |-> pdf_metadata]]

\* SummarizeResponse(...); pdf_metadata is None, or Some(metadata) on the PDF route
SummarizeOk(summary, text_content, source_type, pdf_metadata) ==
    [status |-> 200,
     body |-> [summary |-> summary,
               original_length |-> Len(text_content),
               summary_length |-> Len(summary),
               compression_ratio |-> CompressionRatio(Len(summary), Len(text_content)),
               source_type |-> source_type,
               pdf_metadata |-> pdf_metadata]]

\* `request.include_sources or False`
IncludeOrFalse(include_sources) == include_sources # None /\ include_sources[1]

SourcesInverted(include_sources) == IF include_sources THEN None ELSE Some(<<>>)

\* `sources=None if not include_sources else []`
Sources(include_sources) == IF ~include_sources THEN None ELSE Some(<<>>)

QueryOk(answer, include_sources, source_type, pdf_metadata) ==
    [status |-> 200,
     body |-> [answer |-> answer,
               confidence |-> None,
               sources |-> Sources(include_sources),
               source_type |-> source_type,
               pdf_metadata |-> pdf_metadata]]

\* a handler that answered before the client was called
NotCalled == [renderLog |-> <<>>, generation |-> NoValue, gateway |-> <<>>]

\* what serving a request leaves behind: the response, and the render call,
\* generate_text outcome and remote calls of the client call `called`
Served(resp, called) ==
    [response |-> resp, renderLog |-> called.renderLog,
     generation |-> called.generation, gateway |-> called.gateway]

\* the end of summarize_text: the summary, or the response to its failure
SummaryServed(summary, text_content) ==
    Served(IF Raised(summary.out) THEN HttpFailure(500, "Summarization failed", summary.out)
           ELSE SummarizeOk(summary.out.value, text_content, "text", None),
           summary)

\* POST /summarize: body validation (422), then the body of summarize_text
summarize_text(globals, body, remote) ==
    IF ~SummarizeRequestValid(body) THEN Served(HttpError(422, "validation"), NotCalled)
    ELSE SummaryServed(gemini_summarize_text(globals, body.text, body.max_length,
                                             StyleOrConcise(body.style), remote),
                       body.text)

\* the end of query_document: the answer, or the response to its failure
AnswerServed(answer, include_sources) ==
    Served(IF Raised(answer.out) THEN HttpFailure(500, "Query processing failed", answer.out)
           ELSE QueryOk(answer.out.value, include_sources, "text", None),
           answer)

\* POST /query: body validation (422), then the body of query_document
query_document(globals, body, remote) ==
    IF ~QueryRequestValid(body) THEN Served(HttpError(422, "validation"), NotCalled)
    ELSE AnswerServed(gemini_answer_question(globals, body.question, body.context,
                          IncludeOrFalse(body.include_sources), remote),
                      IncludeOrFalse(body.include_sources))

LowerCase(c) ==
    CASE c = "A" -> "a" [] c = "P" -> "p" [] c = "D" -> "d" [] c = "F" -> "f"
      [] OTHER -> c

Lower(s) == [i \in 1..Len(s) |-> LowerCase(s[i])]

EndsWith(s, suffix) ==
    /\ Len(s) >= Len(suffix)
    /\ SubSeq(s, Len(s) - Len(suffix) + 1, Len(s)) = suffix

\* file.filename.lower().endswith('.pdf')
IsPdfFilename(filename) == EndsWith(Lower(filename), <<".", "p", "d", "f">>)

\* get_pdf_processor(): PDFProcessor() raises when no library was imported
get_pdf_processor(library) ==
    IF library = Null THEN Raise("PDFProcessingError", "No PDF library available")
    ELSE Return(library)

PdfFailedAlways500(e, failed) == HttpFailure(500, failed, e)

\* the except clauses of the two PDF handlers: PDFProcessingError is answered
\* with 400, any other exception with 500 and the handler's own message
PdfFailed(e, failed) ==
    IF e.exc = "PDFProcessingError" THEN HttpFailure(400, "PDF processing failed", e)
    ELSE HttpFailure(500, failed, e)

UploadStepsGoingOn(filename, processor, valid, extracted, failed) ==
    IF Raised(extracted)
    THEN [validation |-> valid,
          extraction |-> Return([text |-> <<>>, metadata |-> EmptyMetadata]),
          response |-> NoValue]
    ELSE [validation |-> valid, extraction |-> extracted, response |-> NoValue]

\* the upload from the filename test to the extraction, given what
\* get_pdf_processor, validate_pdf and extract_text_from_bytes do
UploadSteps(filename, processor, valid, extracted, failed) ==
    IF ~IsPdfFilename(filename)
    THEN [validation |-> NoValue, extraction |-> NoValue,
          response |-> HttpError(400, "Only PDF files are supported")]
    ELSE IF Raised(processor)
    THEN [validation |-> NoValue, extraction |-> NoValue,
          response |-> PdfFailed(processor, failed)]
    ELSE IF Raised(valid)
    THEN [validation |-> valid, extraction |-> NoValue,
          response |-> PdfFailed(valid, failed)]
    ELSE IF ~valid.value
    THEN [validation |-> valid, extraction |-> NoValue,
          response |-> HttpError(400, "Invalid PDF file")]
    ELSE IF Raised(extracted)
    THEN [validation |-> valid, extraction |-> extracted,
          response |-> PdfFailed(extracted, failed)]
    ELSE [validation |-> valid, extraction |-> extracted, response |-> NoValue]

\* what a PDF handler does with the upload before it calls the client:
\* [validation, extraction, response]; response is NoValue when it goes on
ProcessPdf(library, filename, d, failed) ==
    UploadSteps(filename, get_pdf_processor(library), validate_pdf(d),
                extract_text_from_bytes(d), failed)

\* what a PDF handler leaves behind: the upload's validation and extraction
\* with what Served gives
ServedPdf(pdf, served) ==
    [validation |-> pdf.validation, extraction |-> pdf.extraction,
     response |-> served.response, renderLog |-> served.renderLog,
     generation |-> served.generation, gateway |-> served.gateway]

\* the end of summarize_pdf: the summary, or the response to its failure
PdfSummaryServed(summary, extracted, failed) ==
    Served(IF Raised(summary.out) THEN PdfFailed(summary.out, failed)
           ELSE SummarizeOk(summary.out.value, extracted.text, "pdf",
                            Some(extracted.metadata)),
           summary)

\* summarize_pdf once the upload went through ProcessPdf
SummarizeUpload(globals, pdf, max_length, style, remote, failed) ==
    IF pdf.response # NoValue THEN ServedPdf(pdf, Served(pdf.response, NotCalled))
    ELSE ServedPdf(pdf,
                   PdfSummaryServed(
                       gemini_summarize_text(globals, pdf.extraction.value.text,
                                             max_length, StyleOrConcise(style), remote),
                       pdf.extraction.value, failed))

\* POST /summarize-pdf
summarize_pdf(globals, library, filename, d, max_length, style, remote) ==
    SummarizeUpload(globals,
                    ProcessPdf(library, filename, d, "PDF summarization failed"),
                    max_length, style, remote, "PDF summarization failed")

NotUploaded == [validation |-> NoValue, extraction |-> NoValue]

\* the end of query_pdf: the answer, or the response to its failure
PdfAnswerServed(answer, extracted, include_sources, failed) ==
    Served(IF Raised(answer.out) THEN PdfFailed(answer.out, failed)
           ELSE QueryOk(answer.out.value, include_sources, "pdf",
                        Some(extracted.metadata)),
           answer)

\* query_pdf once the question is known not to be blank and the upload went
\* through ProcessPdf
QueryUpload(globals, pdf, question, include_sources, remote, failed) ==
    IF pdf.response # NoValue THEN ServedPdf(pdf, Served(pdf.response, NotCalled))
    ELSE ServedPdf(pdf,
                   PdfAnswerServed(
                       gemini_answer_question(globals, question,
                                              pdf.extraction.value.text,
                                              include_sources, remote),
                       pdf.extraction.value, include_sources, failed))

\* POST /query-pdf
query_pdf(globals, library, filename, d, question, include_sources, remote) ==
    IF Strip(question) = <<>>
    THEN ServedPdf(NotUploaded,
                   Served(HttpError(400, "Question cannot be empty"), NotCalled))
    ELSE QueryUpload(globals,
                     ProcessPdf(library, filename, d, "PDF query processing failed"),
                     question, include_sources, remote, "PDF query processing failed")

-----------------------------------------------------------------------------
(* The extractor applied to uploaded documents *)

InitExtract ==
    /\ pdf_library = "pypdf"
    /\ doc \in Documents
    /\ validation = NoValue
    /\ extraction = NoValue
    /\ standalone = NoValue
    /\ templates = ModuleGlobals
    /\ renderLog = <<>>
    /\ request = NoValue
    /\ response = NoValue
    /\ generation = NoValue
    /\ gateway = <<>>
    /\ debug = TRUE
    /\ inflight = <<>>

Validate ==
    /\ validation' = validate_pdf(doc)
    /\ UNCHANGED <<pdf_library, doc, extraction, standalone, renderVars, pipelineVars>>

Extract ==
    /\ extraction' = extract_text_from_bytes(doc)
    /\ UNCHANGED <<pdf_library, doc, validation, standalone, renderVars, pipelineVars>>

ExtractStandalone ==
    /\ standalone' = app_extract_text_from_bytes(doc)
    /\ UNCHANGED <<pdf_library, doc, validation, extraction, renderVars, pipelineVars>>

NextExtract == Validate \/ Extract \/ ExtractStandalone

SpecExtract == InitExtract /\ [][NextExtract]_vars

-----------------------------------------------------------------------------
(* Properties of the extractor *)

PageIndices == 1..Len(doc.pages)

\* the document opened and its page count was read
OpensWithPages == doc.opens /\ doc.count

\* pages whose extraction returned a non-empty string
NonEmptyPages == {i \in PageIndices : doc.pages[i].ok /\ doc.pages[i].text # <<>>}

\* pages whose extraction returned a string that is non-empty once trimmed
TextPages == {i \in PageIndices : doc.pages[i].ok /\ Strip(doc.pages[i].text) # <<>>}

RaisingPages == {i \in PageIndices : ~doc.pages[i].ok}

Extracted == extraction # NoValue

ExtractOk == Extracted /\ Returned(extraction)

\* the text made of the blocks of the pages in S, in ascending page order
BlocksOf(S, t) ==
    \E idx \in [1..Cardinality(S) -> S] :
        /\ \A k \in 1..(Cardinality(S) - 1) : idx[k] < idx[k + 1]
        /\ t = Join(<<"\n", "\n">>,
                    [k \in 1..Cardinality(S) |->
                        PageMarker(idx[k]) \o <<"\n">> \o Strip(doc.pages[idx[k]].text)])

\* C2 as stated: all pages yield "" => NoText; some page yields a non-empty
\* string => success with pagesProcessed = number of such pages.
C2_AsStated ==
    (Extracted /\ OpensWithPages) =>
        /\ (\A i \in PageIndices : doc.pages[i].ok /\ doc.pages[i].text = <<>>)
              => extraction = ExtractNoText
        /\ (NonEmptyPages # {})
              => /\ Returned(extraction)
                 /\ extraction.value.metadata.pages_processed = Cardinality(NonEmptyPages)

\* C2 amended: for a document that opens with N pages, if every page yields
\* text that is empty after trimming whitespace, extract fails with NoText; if
\* at least one page yields text that is non-empty after trimming, extract
\* succeeds and pagesProcessed is the number of such pages.
C2_TrimmedTextDecides ==
    (Extracted /\ OpensWithPages) =>
        /\ (\A i \in PageIndices : doc.pages[i].ok /\ Strip(doc.pages[i].text) = <<>>)
              => extraction = ExtractNoText
        /\ (TextPages # {})
              => /\ Returned(extraction)
                 /\ extraction.value.metadata.pages_processed = Cardinality(TextPages)

\* extract succeeded on a document with a whitespace-only page and a text page
C2_Witness ==
    /\ ExtractOk
    /\ NonEmptyPages \ TextPages # {}
    /\ TextPages # {}

\* C3 as stated: with some pages raising and another page yielding a non-empty
\* string, extract succeeds, totalPages counts every page, pagesProcessed the
\* pages that yielded text, and only those pages have a marker in the text.
C3_AsStated ==
    (Extracted /\ OpensWithPages /\ RaisingPages # {} /\ NonEmptyPages # {}) =>
        /\ Returned(extraction)
        /\ extraction.value.metadata.total_pages = Len(doc.pages)
        /\ extraction.value.metadata.pages_processed = Cardinality(NonEmptyPages)
        /\ \A i \in PageIndices :
              Contains(extraction.value.text, PageMarker(i)) <=> i \in NonEmptyPages

\* C3 amended: a page whose extraction raises is skipped and the failure is not
\* propagated: when some pages raise and at least one other page yields text
\* that is non-empty after trimming, extract succeeds, totalPages counts all
\* pages including the failing ones, pagesProcessed counts only the pages that
\* yielded such text, and the text has page markers only for those pages.
C3_RaisingPageSkipped ==
    (Extracted /\ OpensWithPages /\ RaisingPages # {} /\ TextPages # {}) =>
        /\ Returned(extraction)
        /\ extraction.value.metadata.total_pages = Len(doc.pages)
        /\ extraction.value.metadata.pages_processed = Cardinality(TextPages)
        /\ \A i \in PageIndices :
              Contains(extraction.value.text, PageMarker(i)) <=> i \in TextPages

\* extract succeeded on a document one of whose pages raised
C3_Witness ==
    /\ ExtractOk
    /\ RaisingPages # {}
    /\ extraction.value.metadata.pages_processed < extraction.value.metadata.total_pages

\* C4 as stated: the text is the blocks of the pages that yielded a non-empty
\* string (marker, newline, trimmed text), joined by a blank line, ascending.
C4_AsStated ==
    ExtractOk => BlocksOf(NonEmptyPages, extraction.value.text)

\* C4 amended: on success the text is exactly the blocks of the pages that
\* yielded text that is non-empty after trimming, each block the marker
\* "--- Page {i} ---" (i 1-based), a newline and the page's trimmed text,
\* joined by a blank line, with strictly increasing page indices.
C4_TextIsBlocksInOrder ==
    ExtractOk => BlocksOf(TextPages, extraction.value.text)

\* extract succeeded with two blocks, one of them trimmed
C4_Witness ==
    /\ ExtractOk
    /\ Cardinality(TextPages) >= 2
    /\ \E i \in TextPages : Strip(doc.pages[i].text) # doc.pages[i].text

\* C5: a successful extraction has 1 <= pagesProcessed <= totalPages and a
\* non-empty text.
C5_ExtractedDocumentInvariant ==
    ExtractOk =>
        /\ 1 <= extraction.value.metadata.pages_processed
        /\ extraction.value.metadata.pages_processed <= extraction.value.metadata.total_pages
        /\ extraction.value.text # <<>>
        /\ Len(extraction.value.text) > 0

\* extract succeeded with fewer processed pages than pages
C5_Witness ==
    /\ ExtractOk
    /\ extraction.value.metadata.pages_processed = 1
    /\ extraction.value.metadata.total_pages = 2
    /\ RaisingPages = {}

DescriptiveFieldsNull(m) ==
    /\ m.title = Null
    /\ m.author = Null
    /\ m.creation_date = Null

\* C6 as stated: when the document opens and some page yields a non-empty
\* string, extract succeeds whatever the metadata read does, the descriptive
\* fields being null when the read failed (both extractors).
C6_AsStated ==
    (OpensWithPages /\ NonEmptyPages # {}) =>
        /\ Extracted =>
              /\ Returned(extraction)
              /\ doc.meta = "raise" => DescriptiveFieldsNull(extraction.value.metadata)
        /\ standalone # NoValue =>
              /\ Returned(standalone)
              /\ doc.meta = "raise" => DescriptiveFieldsNull(standalone.value.metadata)

\* C6 amended: a failure while reading the metadata never aborts extraction:
\* when the document opens and at least one page yields text that is non-empty
\* after trimming, extract succeeds whatever the metadata read does, with the
\* descriptive metadata fields null when the read failed (both extractors).
C6_MetadataFailureSwallowed ==
    (OpensWithPages /\ TextPages # {}) =>
        /\ Extracted =>
              /\ Returned(extraction)
              /\ doc.meta = "raise" =>
                    /\ DescriptiveFieldsNull(extraction.value.metadata)
                    /\ extraction.value.metadata.subject = Null
                    /\ extraction.value.metadata.creator = Null
                    /\ extraction.value.metadata.producer = Null
                    /\ extraction.value.metadata.modification_date = Null
        /\ standalone # NoValue =>
              /\ Returned(standalone)
              /\ doc.meta = "raise" => DescriptiveFieldsNull(standalone.value.metadata)

\* both extractors succeeded on a document whose metadata read raised
C6_Witness ==
    /\ doc.meta = "raise"
    /\ ExtractOk
    /\ standalone # NoValue
    /\ Returned(standalone)

\* C7: validate never raises; it returns false when opening the buffer or
\* reading the page count raises, and true otherwise.
C7_ValidateNeverRaises ==
    validation # NoValue =>
        /\ Returned(validation)
        /\ validation.value = (doc.opens /\ doc.count)

\* validate returned false for a document that opens but has no page count
C7_Witness ==
    /\ validation = Return(FALSE)
    /\ doc.opens
    /\ ~doc.count

-----------------------------------------------------------------------------
(* The prompt builder applied to caller-supplied inputs *)

PromptChars == {"a"}

PromptTexts == UNION {[1..k -> PromptChars] : k \in 0..MaxPromptTextLen}

MaxLengths == {None, Some(0), Some(50)}

KnownStyles == {"concise", "detailed", "bullet_points"}

Styles == KnownStyles \cup {"invalid_style"}

InitRender ==
    /\ pdf_library = "pypdf"
    /\ doc = NoValue
    /\ validation = NoValue
    /\ extraction = NoValue
    /\ standalone = NoValue
    /\ templates = ModuleGlobals
    /\ renderLog = <<>>
    /\ request = NoValue
    /\ response = NoValue
    /\ generation = NoValue
    /\ gateway = <<>>
    /\ debug = TRUE
    /\ inflight = <<>>

\* until renderLog holds MaxCalls calls, a call is kept in it or made without
\* being kept
Logged(input, out) ==
    /\ Len(renderLog) < MaxCalls
    /\ \/ renderLog' = Append(renderLog, [input |-> input, out |-> out])
       \/ renderLog' = renderLog

RenderSummarization ==
    \E text \in PromptTexts, max_length \in MaxLengths, style \in Styles :
        /\ Logged([op |-> "summarize", text |-> text, max_length |-> max_length,
                   style |-> style],
                  get_summarization_prompt(templates, text, max_length, style))
        /\ templates' = GlobalsAfterRender(templates, style)
        /\ UNCHANGED <<extractorVars, pipelineVars>>

RenderRag ==
    \E question \in PromptTexts, context \in PromptTexts, include_sources \in BOOLEAN :
        /\ Logged([op |-> "answer", question |-> question, context |-> context,
                   include_sources |-> include_sources],
                  get_rag_prompt(templates, question, context, include_sources))
        /\ UNCHANGED <<templates, extractorVars, pipelineVars>>

NextRender == RenderSummarization \/ RenderRag

SpecRender == InitRender /\ [][NextRender]_vars

-----------------------------------------------------------------------------
(* The prompt builder applied to one request with markup in its content *)

MaxMarkupLen == 2

MarkupChars == {"a", "<", " "}

MarkupTexts == UNION {[1..k -> MarkupChars] : k \in 0..MaxMarkupLen}

\* the arguments of one call of get_summarization_prompt or get_rag_prompt
PromptRequests ==
    [op : {"summarize"}, text : MarkupTexts, max_length : MaxLengths, style : Styles]
    \cup [op : {"answer"}, question : MarkupTexts, context : MarkupTexts,
          include_sources : BOOLEAN]

InitPrompt ==
    /\ pdf_library = "pypdf"
    /\ doc = NoValue
    /\ validation = NoValue
    /\ extraction = NoValue
    /\ standalone = NoValue
    /\ templates = ModuleGlobals
    /\ renderLog = <<>>
    /\ request \in PromptRequests
    /\ response = NoValue
    /\ generation = NoValue
    /\ gateway = <<>>
    /\ debug = TRUE
    /\ inflight = <<>>

RenderSummarizeRequest ==
    /\ renderLog = <<>>
    /\ request.op = "summarize"
    /\ renderLog' = <<[input |-> request,
                       out |-> get_summarization_prompt(templates, request.text,
                                   request.max_length, request.style)]>>
    /\ templates' = GlobalsAfterRender(templates, request.style)
    /\ UNCHANGED <<extractorVars, pipelineVars>>

RenderAnswerRequest ==
    /\ renderLog = <<>>
    /\ request.op = "answer"
    /\ renderLog' = <<[input |-> request,
                       out |-> get_rag_prompt(templates, request.question,
                                   request.context, request.include_sources)]>>
    /\ UNCHANGED <<templates, extractorVars, pipelineVars>>

NextPrompt == RenderSummarizeRequest \/ RenderAnswerRequest

SpecPrompt == InitPrompt /\ [][NextPrompt]_vars

-----------------------------------------------------------------------------
(* Properties of the prompt builder *)

LogIndices == 1..Len(renderLog)

SummarizeCalls == {i \in LogIndices : renderLog[i].input.op = "summarize"}

\* C8: for every style outside {concise, detailed, bullet_points} the rendered
\* summarization prompt is the prompt rendered with style = concise for the same
\* text and maxLengthWords, and rendering does not fail.
C8_UnknownStyleIsConcise ==
    \A i \in SummarizeCalls :
        renderLog[i].input.style \notin KnownStyles =>
            /\ Returned(renderLog[i].out)
            /\ \A j \in SummarizeCalls :
                  (/\ renderLog[j].input.style = "concise"
                   /\ renderLog[j].input.text = renderLog[i].input.text
                   /\ renderLog[j].input.max_length = renderLog[i].input.max_length)
                  => renderLog[j].out = renderLog[i].out

\* an unknown style and concise were rendered for the same text and a length
C8_Witness ==
    /\ Len(renderLog) = 2
    /\ renderLog[1].input.op = "summarize"
    /\ renderLog[2].input.op = "summarize"
    /\ renderLog[1].input.style = "invalid_style"
    /\ renderLog[2].input.style = "concise"
    /\ renderLog[1].input.text = renderLog[2].input.text
    /\ renderLog[1].input.max_length = Some(50)
    /\ renderLog[2].input.max_length = Some(50)
    /\ Returned(renderLog[1].out)

LengthPrefixes ==
    {SUMMARIZATION_TEMPLATES[s].lengthPrefix : s \in DOMAIN SUMMARIZATION_TEMPLATES}

\* the prompt has a length-constraint line
HasLengthLine(prompt) == \E k \in 1..Len(prompt) : prompt[k] \in LengthPrefixes

\* the prompt has the length-constraint line of some template, printed with n
HasLengthLineWith(prompt, n) ==
    \E s \in DOMAIN SUMMARIZATION_TEMPLATES :
        Contains(prompt, LengthLine(SUMMARIZATION_TEMPLATES[s], n) \o <<"\n">>)

\* C9: with maxLengthWords absent the rendered summarization prompt has no
\* length-constraint line; with any provided integer it has the
\* length-constraint line with that integer.
C9_LengthLineIffProvided ==
    \A i \in SummarizeCalls :
        Returned(renderLog[i].out) =>
            IF renderLog[i].input.max_length = None
            THEN ~HasLengthLine(renderLog[i].out.value)
            ELSE HasLengthLineWith(renderLog[i].out.value, renderLog[i].input.max_length[1])

\* C11: every rendered prompt contains the caller-supplied content verbatim as
\* a contiguous substring: the text for a summarization prompt, both the question
\* and the context for an answer prompt; nothing is escaped or interpreted.
C11_ContentVerbatim ==
    \A i \in LogIndices :
        LET input == renderLog[i].input
            out == renderLog[i].out
        IN /\ Returned(out)
           /\ input.op = "summarize" => Contains(out.value, input.text)
           /\ input.op = "answer" => /\ Contains(out.value, input.question)
                                     /\ Contains(out.value, input.context)

\* an answer prompt was rendered from a question and a context that both hold
\* markup
C11_Witness ==
    /\ renderLog # <<>>
    /\ renderLog[1].input.op = "answer"
    /\ renderLog[1].input.question = <<"a", "<">>
    /\ renderLog[1].input.context = <<"<", " ">>
    /\ Returned(renderLog[1].out)

\* C10: two render calls with identical inputs return identical prompts,
\* whatever other render calls happen before or between them.
C10_RenderHasNoHiddenState ==
    \A i, j \in LogIndices :
        renderLog[i].input = renderLog[j].input => renderLog[i].out = renderLog[j].out

\* the same input was rendered twice
C10_Witness ==
    /\ Len(renderLog) = 2
    /\ renderLog[1].input = renderLog[2].input
    /\ renderLog[1].input.op = "summarize"
    /\ renderLog[1].input.style = "concise"
    /\ Returned(renderLog[2].out)

-----------------------------------------------------------------------------
(* The backend serving a request *)

RequestStyles == {"concise", "invalid_style", "", Null}

\* an upload of two pages with text, whose extracted text has a separator
TwoPageDocument ==
    [opens |-> TRUE, count |-> TRUE, meta |-> "info",
     pages |-> <<[ok |-> TRUE, text |-> <<"a">>], [ok |-> TRUE, text |-> <<"a">>]>>]

UploadedDocuments == DocumentsOf(MaxUploadPages, MaxUploadTextLen) \cup {TwoPageDocument}

Filenames ==
    {<<"a", ".", "p", "d", "f">>, <<"A", ".", "P", "D", "F">>, <<"a", ".", "t", "x", "t">>}

Repeat(c, n) == [i \in 1..n |-> c]

\* the longest text a field of max_length=limit accepts and the shortest one
\* it rejects
LimitTexts(limit) == {Repeat("a", limit), Repeat("a", limit + 1)}

\* values of max_length on both sides of ge=10 and le=1000
LimitLengths ==
    {None, Some(MinSummaryWords - 1), Some(MinSummaryWords), Some(MaxSummaryWords),
     Some(MaxSummaryWords + 1)}

OptionalBooleans == {None, Some(TRUE), Some(FALSE)}

\* the question form field of /query-pdf
FormQuestions == Texts(MaxUploadTextLen) \cup {Repeat("a", MaxQuestionChars + 1)}

Init ==
    /\ pdf_library \in {"pypdf", Null}
    /\ doc = NoValue
    /\ validation = NoValue
    /\ extraction = NoValue
    /\ standalone = NoValue
    /\ templates = ModuleGlobals
    /\ renderLog = <<>>
    /\ request = NoValue
    /\ response = NoValue
    /\ generation = NoValue
    /\ gateway = <<>>
    /\ debug \in BOOLEAN
    /\ inflight = <<>>

\* the request as served: its description with the outcome of the remote
\* model, which is part of it only when the handler got as far as calling it
Serve(req, remote, served) ==
    /\ request' = [req EXCEPT !.remote = IF served.gateway # <<>> THEN remote ELSE NoValue]
    /\ response' = served.response
    /\ renderLog' = served.renderLog
    /\ generation' = served.generation
    /\ gateway' = served.gateway

\* a PDF request as served, with what became of the upload d
ServeUpload(req, d, remote, served) ==
    /\ Serve(req, remote, served)
    /\ doc' = d
    /\ validation' = served.validation
    /\ extraction' = served.extraction

\* POST /summarize with a body drawn from the given sets
PostSummarize(texts, max_lengths, styles) ==
    /\ request = NoValue
    /\ \E text \in texts, max_length \in max_lengths, style \in styles,
          remote \in RemoteOutcomes :
          Serve([route |-> "/summarize",
                 body |-> [text |-> text, max_length |-> max_length, style |-> style],
                 remote |-> remote],
                remote,
                summarize_text(templates,
                               [text |-> text, max_length |-> max_length,
                                style |-> style],
                               remote))
    /\ UNCHANGED <<extractorVars, templates, debug, inflight>>

SummarizeText == PostSummarize(Texts(MaxTextLen), MaxLengths, RequestStyles)

\* POST /query with a body drawn from the given sets
PostQuery(questions, contexts, includes) ==
    /\ request = NoValue
    /\ \E question \in questions, context \in contexts, include_sources \in includes,
          remote \in RemoteOutcomes :
          Serve([route |-> "/query",
                 body |-> [question |-> question, context |-> context,
                           include_sources |-> include_sources],
                 remote |-> remote],
                remote,
                query_document(templates,
                               [question |-> question, context |-> context,
                                include_sources |-> include_sources],
                               remote))
    /\ UNCHANGED <<extractorVars, templates, debug, inflight>>

QueryDocument == PostQuery(Texts(MaxTextLen), Texts(MaxTextLen), OptionalBooleans)

\* POST /summarize-pdf
SummarizePdf ==
    /\ request = NoValue
    /\ \E filename \in Filenames, d \in UploadedDocuments, max_length \in MaxLengths,
          style \in RequestStyles \ {Null}, remote \in RemoteOutcomes :
          ServeUpload([route |-> "/summarize-pdf", filename |-> filename,
                       max_length |-> max_length, style |-> style, remote |-> remote],
                      d, remote,
                      summarize_pdf(templates, pdf_library, filename, d, max_length,
                                    style, remote))
    /\ UNCHANGED <<pdf_library, standalone, templates, debug, inflight>>

\* POST /query-pdf
QueryPdf ==
    /\ request = NoValue
    /\ \E filename \in Filenames, d \in UploadedDocuments, question \in FormQuestions,
          include_sources \in BOOLEAN, remote \in RemoteOutcomes :
          ServeUpload([route |-> "/query-pdf", filename |-> filename,
                       question |-> question, include_sources |-> include_sources,
                       remote |-> remote],
                      d, remote,
                      query_pdf(templates, pdf_library, filename, d, question,
                                include_sources, remote))
    /\ UNCHANGED <<pdf_library, standalone, templates, debug, inflight>>

Next == SummarizeText \/ QueryDocument \/ SummarizePdf \/ QueryPdf

Spec == Init /\ [][Next]_vars

-----------------------------------------------------------------------------
(* The PDF routes serving uploads of any size, sent by the frontend or by
   another client *)

\* frontend/config.py: MAX_FILE_SIZE_MB
MAX_FILE_SIZE_MB == 10

BytesPerMB == 1024 * 1024

\* len(uploaded_file.getvalue()) of the uploads: a small file, the largest
\* file within the limit and the smallest one over it
UploadSizes == {1, MAX_FILE_SIZE_MB * BytesPerMB, MAX_FILE_SIZE_MB * BytesPerMB + 1}

\* the frontend keeps the upload unless `file_size_mb > config.MAX_FILE_SIZE_MB`
FrontendAccepts(size) == ~(size > MAX_FILE_SIZE_MB * BytesPerMB)

\* the summarization tab: a PDF the frontend kept is posted to /summarize-pdf
FrontendSummarizePdf ==
    /\ request = NoValue
    /\ \E d \in UploadedDocuments, size \in UploadSizes, remote \in RemoteOutcomes :
          /\ FrontendAccepts(size)
          /\ ServeUpload([route |-> "/summarize-pdf", client |-> "frontend",
                          filename |-> <<"a", ".", "p", "d", "f">>, size |-> size,
                          max_length |-> Some(50), style |-> "concise",
                          remote |-> remote],
                         d, remote,
                         summarize_pdf(templates, pdf_library,
                                       <<"a", ".", "p", "d", "f">>, d, Some(50),
                                       "concise", remote))
    /\ UNCHANGED <<pdf_library, standalone, templates, debug, inflight>>

\* the query tab: a PDF the frontend kept is posted to /query-pdf
FrontendQueryPdf ==
    /\ request = NoValue
    /\ \E d \in UploadedDocuments, size \in UploadSizes, include_sources \in BOOLEAN,
          remote \in RemoteOutcomes :
          /\ FrontendAccepts(size)
          /\ ServeUpload([route |-> "/query-pdf", client |-> "frontend",
                          filename |-> <<"a", ".", "p", "d", "f">>, size |-> size,
                          question |-> <<"a">>, include_sources |-> include_sources,
                          remote |-> remote],
                         d, remote,
                         query_pdf(templates, pdf_library, <<"a", ".", "p", "d", "f">>,
                                   d, <<"a">>, include_sources, remote))
    /\ UNCHANGED <<pdf_library, standalone, templates, debug, inflight>>

\* POST /summarize-pdf from any other client: `await file.read()` gives the
\* whole upload, whatever its size
DirectSummarizePdf ==
    /\ request = NoValue
    /\ \E filename \in Filenames, d \in UploadedDocuments, size \in UploadSizes,
          remote \in RemoteOutcomes :
          ServeUpload([route |-> "/summarize-pdf", client |-> "other",
                       filename |-> filename, size |-> size, max_length |-> None,
                       style |-> "concise", remote |-> remote],
                      d, remote,
                      summarize_pdf(templates, pdf_library, filename, d, None,
                                    "concise", remote))
    /\ UNCHANGED <<pdf_library, standalone, templates, debug, inflight>>

\* POST /query-pdf from any other client
DirectQueryPdf ==
    /\ request = NoValue
    /\ \E filename \in Filenames, d \in UploadedDocuments, size \in UploadSizes,
          remote \in RemoteOutcomes :
          ServeUpload([route |-> "/query-pdf", client |-> "other",
                       filename |-> filename, size |-> size, question |-> <<"a">>,
                       include_sources |-> FALSE, remote |-> remote],
                      d, remote,
                      query_pdf(templates, pdf_library, filename, d, <<"a">>, FALSE,
                                remote))
    /\ UNCHANGED <<pdf_library, standalone, templates, debug, inflight>>

NextUpload ==
    FrontendSummarizePdf \/ FrontendQueryPdf \/ DirectSummarizePdf \/ DirectQueryPdf

SpecUpload == Init /\ [][NextUpload]_vars

-----------------------------------------------------------------------------
(* The text routes serving a request whose fields are at the limits of the
   request models *)

\* POST /summarize with text and max_length at their limits
SummarizeTextAtLimits ==
    PostSummarize({<<>>, <<"a">>} \cup LimitTexts(MaxTextChars), LimitLengths,
                  {"concise", Null})

\* POST /query with question and context at their limits
QueryDocumentAtLimits ==
    PostQuery({<<>>, <<"a">>} \cup LimitTexts(MaxQuestionChars),
              {<<>>, <<"a">>} \cup LimitTexts(MaxTextChars), {Some(TRUE), Some(FALSE)})

NextLimits == SummarizeTextAtLimits \/ QueryDocumentAtLimits

SpecLimits == Init /\ [][NextLimits]_vars

-----------------------------------------------------------------------------
(* The server holding several requests at once *)

MaxRequests == 2

Slots == 1..MaxRequests

\* the requests that arrive: summaries in two styles and questions, each
\* with what the remote model will give to it
ConcurrentRequests ==
    [route : {"/summarize"},
     body : [text : {<<"a">>}, max_length : {None}, style : {"detailed", "invalid_style"}],
     remote : {[ok |-> TRUE, text |-> <<"a">>, reason |-> Null],
               [ok |-> FALSE, text |-> <<>>, reason |-> "quota exceeded"]}]
    \cup
    [route : {"/query"},
     body : [question : {<<"a">>}, context : {<<"a">>, <<"a", "a">>},
             include_sources : {Some(TRUE)}],
     remote : {[ok |-> TRUE, text |-> <<"a">>, reason |-> Null],
               [ok |-> FALSE, text |-> <<>>, reason |-> "quota exceeded"]}]

\* the route handler of the request, run with the module globals it finds
HandleRequest(globals, req) ==
    IF req.route = "/summarize" THEN summarize_text(globals, req.body, req.remote)
    ELSE query_document(globals, req.body, req.remote)

TemplatesAfterKeepsLastStyle(globals, served) ==
    IF served.renderLog # <<>> /\ served.renderLog[1].input.op = "summarize"
    THEN GlobalsAfterRenderRemembersStyle(globals, served.renderLog[1].input.style)
    ELSE globals

\* the module globals after a handler ran: those the render call it made, if
\* it made one, left behind
TemplatesAfter(globals, served) ==
    IF served.renderLog # <<>> /\ served.renderLog[1].input.op = "summarize"
    THEN GlobalsAfterRender(globals, served.renderLog[1].input.style)
    ELSE globals

InitConcurrent ==
    /\ pdf_library = "pypdf"
    /\ doc = NoValue
    /\ validation = NoValue
    /\ extraction = NoValue
    /\ standalone = NoValue
    /\ templates = ModuleGlobals
    /\ renderLog = <<>>
    /\ request = NoValue
    /\ response = NoValue
    /\ generation = NoValue
    /\ gateway = <<>>
    /\ debug \in BOOLEAN
    /\ inflight = [i \in Slots |-> [stage |-> "idle"]]

\* a request arrives and its body is parsed; the handler has not run yet
Accept(i) ==
    /\ inflight[i].stage = "idle"
    /\ \E req \in ConcurrentRequests :
          inflight' = [inflight EXCEPT ![i] = [stage |-> "accepted", request |-> req]]
    /\ UNCHANGED <<extractorVars, renderVars, request, response, generation, gateway,
                   debug>>

\* the request of slot i is answered with what its handler left behind
Answer(i, served) ==
    /\ inflight' = [inflight EXCEPT ![i] = [stage |-> "answered",
                                            request |-> inflight[i].request,
                                            served |-> served]]
    /\ templates' = TemplatesAfter(templates, served)

\* the event loop runs the handler of an accepted request: the handlers of
\* the text routes never yield to the loop, so each runs to its end
Handle(i) ==
    /\ inflight[i].stage = "accepted"
    /\ Answer(i, HandleRequest(templates, inflight[i].request))
    /\ UNCHANGED <<extractorVars, renderLog, request, response, generation, gateway,
                   debug>>

NextConcurrent == \E i \in Slots : Accept(i) \/ Handle(i)

SpecConcurrent == InitConcurrent /\ [][NextConcurrent]_vars

-----------------------------------------------------------------------------
(* The event loop: one thread runs every handler *)

health_check == [status |-> 200,
                 body |-> [status |-> "healthy", service |-> "ai-document-qa-system"]]

\* generate_text is a coroutine, but model.generate_content is an ordinary
\* call inside it: the thread of the loop stays in the handler until the
\* remote model has answered
LoopHeld == \E i \in Slots : inflight[i].stage = "waiting"

AcceptLoop(i) ==
    /\ inflight[i].stage = "idle"
    /\ \E req \in ConcurrentRequests \cup {[route |-> "/health"]} :
          inflight' = [inflight EXCEPT ![i] = [stage |-> "accepted", request |-> req]]
    /\ UNCHANGED <<extractorVars, renderVars, request, response, generation, gateway,
                   debug>>

\* the loop runs the handler up to the call of the remote model
CallRemote(i) ==
    /\ ~LoopHeld
    /\ inflight[i].stage = "accepted"
    /\ inflight[i].request.route # "/health"
    /\ inflight' = [inflight EXCEPT ![i].stage = "waiting"]
    /\ UNCHANGED <<extractorVars, renderVars, request, response, generation, gateway,
                   debug>>

\* the remote model answers and the handler runs to its end
ReturnRemote(i) ==
    /\ inflight[i].stage = "waiting"
    /\ Answer(i, HandleRequest(templates, inflight[i].request))
    /\ UNCHANGED <<extractorVars, renderLog, request, response, generation, gateway,
                   debug>>

\* the loop runs the handler of GET /health
HealthCheck(i) ==
    /\ ~LoopHeld
    /\ inflight[i].stage = "accepted"
    /\ inflight[i].request.route = "/health"
    /\ inflight' = [inflight EXCEPT ![i] = [stage |-> "answered",
                                            request |-> inflight[i].request,
                                            served |-> [response |-> health_check]]]
    /\ UNCHANGED <<extractorVars, renderVars, request, response, generation, gateway,
                   debug>>

NextLoop ==
    \E i \in Slots : AcceptLoop(i) \/ CallRemote(i) \/ ReturnRemote(i) \/ HealthCheck(i)

SpecLoop == InitConcurrent /\ [][NextLoop]_vars

-----------------------------------------------------------------------------
(* Properties of the request pipeline *)

SummarizeRoutes == {"/summarize", "/summarize-pdf"}

SummarizeSucceeded ==
    /\ request # NoValue
    /\ request.route \in SummarizeRoutes
    /\ response.status = 200

\* the text the request resolved to: the body's text, or the extracted text
ResolvedText ==
    IF request.route = "/summarize" THEN request.body.text ELSE extraction.value.text

\* C1: in every successful summarize response (text or PDF route),
\* compression_ratio = summary_length / original_length when original_length > 0
\* and 0 when original_length = 0, original_length being the character length of
\* the resolved source text and summary_length that of the returned summary.
C1_CompressionRatio ==
    SummarizeSucceeded =>
        LET b == response.body IN
        /\ b.original_length = Len(ResolvedText)
        /\ b.summary_length = Len(b.summary)
        /\ b.original_length > 0 =>
              /\ b.compression_ratio[2] > 0
              /\ b.compression_ratio[1] * b.original_length
                    = b.summary_length * b.compression_ratio[2]
        /\ b.original_length = 0 => b.compression_ratio = <<0, 1>>

\* a PDF was summarized with a ratio that is not an integer
C1_Witness ==
    /\ SummarizeSucceeded
    /\ request.route = "/summarize-pdf"
    /\ response.body.summary_length > 0
    /\ response.body.compression_ratio[2] > 1

-----------------------------------------------------------------------------
(* Properties of the gateway *)

\* generate_text was called for the request
GenerateCalled == request # NoValue /\ generation # NoValue

\* C12: whenever generate returns successfully the returned text is trimmed
\* and non-empty; a remote completion that yields no text makes generate fail.
C12_GeneratedTextTrimmedNonEmpty ==
    GenerateCalled =>
        /\ Returned(generation) => /\ generation.value = Strip(generation.value)
                                   /\ generation.value # <<>>
        /\ (request.remote.ok /\ request.remote.text = <<>>) => Raised(generation)

\* C13: the gateway makes no retries: one generate call invokes the remote
\* model exactly once and a failure of that attempt is surfaced at once as a
\* generation failure; so one request issues at most one remote model call.
C13_NoRetries ==
    request # NoValue =>
        /\ Len(gateway) <= 1
        /\ GenerateCalled => Len(gateway) = 1
        /\ \A i \in 1..Len(gateway) :
               ~gateway[i].outcome.ok => /\ Raised(generation)
                                         /\ response.status = 500

\* the single remote call of a request failed
C13_Witness ==
    /\ GenerateCalled
    /\ Len(gateway) = 1
    /\ ~gateway[1].outcome.ok
    /\ Raised(generation)
    /\ response.status = 500

-----------------------------------------------------------------------------
(* Properties of the answer routes *)

QueryRoutes == {"/query", "/query-pdf"}

QuerySucceeded ==
    /\ request # NoValue
    /\ request.route \in QueryRoutes
    /\ response.status = 200

\* include_sources as the request gave it: an optional boolean
RequestedSources ==
    IF request.route = "/query" THEN request.body.include_sources
    ELSE Some(request.include_sources)

\* C14: in every successful answer response (text or PDF route) sources is the
\* empty list when include_sources is true and null when it is false, and
\* confidence is always null.
C14_SourcesAndConfidence ==
    QuerySucceeded =>
        /\ RequestedSources = Some(TRUE) => response.body.sources = Some(<<>>)
        /\ RequestedSources = Some(FALSE) => response.body.sources = None
        /\ response.body.confidence = None

\* a PDF question was answered with sources requested
C14_Witness ==
    /\ QuerySucceeded
    /\ request.route = "/query-pdf"
    /\ request.include_sources
    /\ response.body.sources = Some(<<>>)

-----------------------------------------------------------------------------
(* Properties of request validation *)

TextRoutes == {"/summarize", "/query"}

\* the request is one the request models of the text routes must refuse
OutsideRequestModel ==
    /\ request # NoValue
    /\ \/ /\ request.route = "/summarize"
          /\ \/ Len(request.body.text) = 0
             \/ Len(request.body.text) > MaxTextChars
             \/ /\ request.body.max_length # None
                /\ \/ request.body.max_length[1] < MinSummaryWords
                   \/ request.body.max_length[1] > MaxSummaryWords
       \/ /\ request.route = "/query"
          /\ \/ Len(request.body.question) = 0
             \/ Len(request.body.question) > MaxQuestionChars
             \/ Len(request.body.context) = 0
             \/ Len(request.body.context) > MaxTextChars

\* nothing was rendered and the client was not called
NothingGenerated == renderLog = <<>> /\ generation = NoValue /\ gateway = <<>>

\* C15: on POST /summarize and POST /query a request whose text, context or
\* question is empty, whose text or context is longer than 50,000 characters,
\* whose question is longer than 1,000 characters, or whose max_length is given
\* outside [10, 1000] is answered with 422; no prompt is built and the gateway
\* is not called.
C15_OutsideModelIs422 ==
    OutsideRequestModel => response.status = 422 /\ NothingGenerated

\* a question of 1,001 characters was refused
C15_Witness ==
    /\ OutsideRequestModel
    /\ request.route = "/query"
    /\ Len(request.body.question) = MaxQuestionChars + 1
    /\ Len(request.body.context) = 1
    /\ response.status = 422
    /\ NothingGenerated

\* non-empty, and empty once trimmed
WhitespaceOnly(t) == t # <<>> /\ Strip(t) = <<>>

\* the text, question and context fields the request carries
RequestTextFields ==
    IF request.route = "/summarize" THEN {request.body.text}
    ELSE IF request.route = "/query" THEN {request.body.question, request.body.context}
    ELSE IF request.route = "/query-pdf" THEN {request.question}
    ELSE {}

\* C16: non-emptiness is checked after trimming: a request whose text, context
\* or question holds only whitespace fails with a validation error and the
\* gateway is never called.
C16_WhitespaceOnlyRejected ==
    (request # NoValue /\ \E t \in RequestTextFields : WhitespaceOnly(t)) =>
        /\ response.status \in {400, 422}
        /\ gateway = <<>>

\* a PDF request whose max_length or question is outside the limits of the
\* request models
PdfOutsideRequestModel ==
    /\ request # NoValue
    /\ \/ /\ request.route = "/summarize-pdf"
          /\ request.max_length # None
          /\ \/ request.max_length[1] < MinSummaryWords
             \/ request.max_length[1] > MaxSummaryWords
       \/ /\ request.route = "/query-pdf"
          /\ Len(request.question) > MaxQuestionChars

\* C17: the validation preconditions hold for a PDF source too: a summarize
\* request with a PDF and max_length outside [10, 1000], or an answer request
\* with a PDF and a question longer than 1,000 characters, fails with a
\* validation error before extraction and before any gateway call.
C17_PdfRequestsValidated ==
    PdfOutsideRequestModel =>
        /\ response.status \in {400, 422}
        /\ extraction = NoValue
        /\ NothingGenerated

-----------------------------------------------------------------------------
(* Properties of the failure responses *)

PdfRoutes == {"/summarize-pdf", "/query-pdf"}

PdfRequested == request # NoValue /\ request.route \in PdfRoutes

\* the upload has no .pdf name, does not validate, or cannot be extracted
UploadUnusable ==
    \/ ~IsPdfFilename(request.filename)
    \/ Raised(validate_pdf(doc))
    \/ ~validate_pdf(doc).value
    \/ Raised(extract_text_from_bytes(doc))

\* C18: on POST /summarize-pdf and POST /query-pdf the status is 400 whenever
\* the filename lacks a .pdf suffix, the content fails validation or the
\* extraction fails; none of these is answered with 500 or 200, and the gateway
\* is not called.
C18_UnusableUploadIs400 ==
    (PdfRequested /\ UploadUnusable) => response.status = 400 /\ NothingGenerated

\* a question about a well-named PDF that validates and has no text
C18_Witness ==
    /\ PdfRequested
    /\ request.route = "/query-pdf"
    /\ IsPdfFilename(request.filename)
    /\ Strip(request.question) # <<>>
    /\ validation = Return(TRUE)
    /\ extraction # NoValue
    /\ Raised(extraction)
    /\ response.status = 400

\* the remote call made for the request raised or gave an empty completion
GatewayCallFailed ==
    /\ request # NoValue
    /\ gateway # <<>>
    /\ \/ ~request.remote.ok
       \/ request.remote.text = <<>>

\* C19: on all four POST routes, whenever the gateway call fails (a remote or
\* transport failure, or an empty completion) the caller receives 500, never
\* 200 or a 4xx status.
C19_GatewayFailureIs500 ==
    GatewayCallFailed => response.status = 500

\* the completion for a question about a PDF was empty
C19_Witness ==
    /\ GatewayCallFailed
    /\ request.route = "/query-pdf"
    /\ request.remote.ok
    /\ response.status = 500

\* the fields of ErrorResponse
ErrorResponseFields == {"error", "detail", "error_code"}

\* C20: every failure response (validation, extraction or generation failure,
\* on every route) has a body of the shape {error, detail?, error_code?}, with
\* error always present.
C20_FailureBodyIsErrorResponse ==
    (request # NoValue /\ response.status # 200) =>
        /\ "error" \in DOMAIN response.body
        /\ DOMAIN response.body \subseteq ErrorResponseFields

\* C21: the underlying reason of a generation failure is in the response only
\* when debug mode is on: with debug off the 500 body is generic, the same
\* whatever the reason of the remote failure; with debug on it carries the
\* non-empty underlying detail.
C21_ReasonOnlyInDebug ==
    GatewayCallFailed =>
        /\ response.status = 500
        /\ ~debug => "cause" \notin DOMAIN response.body.detail
        /\ debug => /\ "cause" \in DOMAIN response.body.detail
                    /\ response.body.detail.cause # <<>>

-----------------------------------------------------------------------------
(* Properties of the server as a whole *)

\* the server answered the request
Answered == request # NoValue /\ response # NoValue

\* C22: with no PDF parsing backend available the failure is fatal at startup
\* and not per call: the process refuses to serve, so no request is ever
\* accepted and answered, with any status, by a server without a backend.
C22_NoBackendNoService ==
    pdf_library = Null => ~Answered

\* C23: size limits on uploads are enforced by the transport layer before
\* the bytes reach the extractor: in every execution of a PDF operation the
\* extractor (validate or extract) is only invoked on a buffer whose size is
\* within the configured upload limit.
C23_ExtractorWithinUploadLimit ==
    (request # NoValue /\ (validation # NoValue \/ extraction # NoValue)) =>
        request.size <= MAX_FILE_SIZE_MB * BytesPerMB

\* C24: a successful response has source_type = "pdf" with pdf_metadata
\* attached if and only if the request was served by a PDF route; responses
\* of the text routes have source_type = "text" and no pdf_metadata.
C24_SourceTypeFollowsRoute ==
    (Answered /\ response.status = 200) =>
        IF request.route \in PdfRoutes
        THEN /\ response.body.source_type = "pdf"
             /\ response.body.pdf_metadata = Some(extraction.value.metadata)
        ELSE /\ response.body.source_type = "text"
             /\ response.body.pdf_metadata = None

\* a PDF was summarized
C24_Witness ==
    /\ Answered
    /\ response.status = 200
    /\ request.route = "/summarize-pdf"
    /\ response.body.source_type = "pdf"
    /\ response.body.pdf_metadata # None

-----------------------------------------------------------------------------
(* Properties of the order of the steps of a request *)

\* the text the prompt of the request was rendered from
RenderedFrom ==
    IF renderLog[1].input.op = "summarize" THEN renderLog[1].input.text
    ELSE renderLog[1].input.context

\* C25: within one request the steps are strictly sequential (extract, render,
\* generate, shape): the prompt is rendered only after extraction succeeded,
\* the gateway is called only after the prompt was rendered, a response is
\* shaped only after the gateway returned; when a step fails no later step of
\* the request runs.
C25_StepsInOrder ==
    Answered =>
        /\ (request.route \in PdfRoutes /\ renderLog # <<>>) =>
               /\ Returned(extract_text_from_bytes(doc))
               /\ extraction = extract_text_from_bytes(doc)
               /\ RenderedFrom = extraction.value.text
        /\ (request.route \in PdfRoutes /\ Raised(extract_text_from_bytes(doc))) =>
               renderLog = <<>> /\ response.status # 200
        /\ gateway # <<>> =>
               /\ renderLog # <<>>
               /\ Returned(renderLog[1].out)
               /\ \A i \in 1..Len(gateway) : gateway[i].prompt = renderLog[1].out.value
        /\ (renderLog = <<>> \/ Raised(renderLog[1].out)) =>
               gateway = <<>> /\ generation = NoValue /\ response.status # 200
        /\ response.status = 200 =>
               /\ generation # NoValue
               /\ Returned(generation)
               /\ generation.value \in {response.body[f] : f \in {"summary", "answer"} \cap DOMAIN response.body}
        /\ (generation # NoValue /\ Raised(generation)) => response.status # 200

\* a PDF went through all four steps
C25_Witness ==
    /\ Answered
    /\ request.route = "/summarize-pdf"
    /\ Returned(extraction)
    /\ renderLog # <<>>
    /\ gateway # <<>>
    /\ Returned(generation)
    /\ response.status = 200
    /\ response.body.summary = generation.value

-----------------------------------------------------------------------------
(* Properties of requests served together *)

C27_WaitingDoesNotBlock ==
    \A i, j \in Slots :
        (/\ inflight[i].stage = "waiting"
         /\ inflight[j].stage = "accepted"
         /\ inflight[j].request.route = "/health") => ENABLED HealthCheck(j)

-----------------------------------------------------------------------------
(* Properties of the lengths reported for an upload *)

\* the pages of the document whose text is kept
KeptPages(d) == {k \in 1..Len(d.pages) : d.pages[k].ok /\ KeepPage(d.pages[k].text)}

\* the characters of the extracted text counted piece by piece: per kept page
\* its marker, the newline and its trimmed text, and a separator between
\* two kept pages
MarkedLength(d) ==
    LET piece(k) == Len(PageMarker(k)) + 1 + Len(Strip(d.pages[k].text))
        upTo[n \in 0..Len(d.pages)] ==
            IF n = 0 THEN 0
            ELSE upTo[n - 1] + (IF n \in KeptPages(d) THEN piece(n) ELSE 0)
    IN upTo[Len(d.pages)] + Len(BlockSeparator) * (Cardinality(KeptPages(d)) - 1)

\* C28: in every successful /summarize-pdf response original_length equals
\* pdf_metadata.text_length, and both are the length of the extracted text
\* with its page markers and separators.
C28_LengthsAgree ==
    (Answered /\ request.route = "/summarize-pdf" /\ response.status = 200) =>
        /\ response.body.original_length = response.body.pdf_metadata[1].text_length
        /\ response.body.original_length = Len(extraction.value.text)
        /\ response.body.original_length = MarkedLength(doc)

\* a two-page upload was summarized: two markers and one separator are counted
C28_Witness ==
    /\ Answered
    /\ request.route = "/summarize-pdf"
    /\ response.status = 200
    /\ doc = TwoPageDocument
    /\ response.body.original_length = 34

-----------------------------------------------------------------------------
(* Properties of the validation gate *)

\* C29: the validation gate is sound for extraction: on a document that
\* validate_pdf rejects, extract_text_from_bytes fails with
\* PDFProcessingError; every failure of the extraction is a
\* PDFProcessingError, which the PDF routes answer with 400, never with 500.
C29_GateSoundForExtraction ==
    /\ (validation = Return(FALSE) /\ extraction # NoValue) =>
           Raised(extraction) /\ extraction.exc = "PDFProcessingError"
    /\ (extraction # NoValue /\ Raised(extraction)) =>
           /\ extraction.exc = "PDFProcessingError"
           /\ PdfFailed(extraction, "PDF summarization failed").status = 400
           /\ PdfFailed(extraction, "PDF query processing failed").status = 400

\* a document was rejected by the gate and its extraction was tried
C29_Witness ==
    /\ validation = Return(FALSE)
    /\ extraction # NoValue
    /\ Raised(extraction)

-----------------------------------------------------------------------------
(* Properties of the two extractors *)

\* C30: the standalone extractor of app.py and the backend extractor are
\* equivalent: they fail on exactly the same documents, both with
\* PDFProcessingError, and where they succeed they return the same text,
\* the same pages_processed and the same total_pages.
C30_ExtractorsEquivalent ==
    (extraction # NoValue /\ standalone # NoValue) =>
        /\ Raised(extraction) <=> Raised(standalone)
        /\ Raised(extraction) =>
              /\ extraction.exc = "PDFProcessingError"
              /\ standalone.exc = "PDFProcessingError"
        /\ Returned(extraction) =>
              /\ standalone.value.text = extraction.value.text
              /\ standalone.value.metadata.pages_processed
                     = extraction.value.metadata.pages_processed
              /\ standalone.value.metadata.total_pages
                     = extraction.value.metadata.total_pages

\* both extractors returned the text of a document one of whose pages is
\* skipped
C30_Witness ==
    /\ extraction # NoValue
    /\ standalone # NoValue
    /\ Returned(extraction)
    /\ Returned(standalone)
    /\ extraction.value.metadata.pages_processed < extraction.value.metadata.total_pages

====
